---- MODULE Spec2Model ----
(***************************************************************************)
(* HypoDD PHA reader and writer of obspy/io/hypodd/pha.py.                 *)
(*                                                                         *)
(* Strings are sequences of character tokens.  A token is one character,   *)
(* except "smi:local", "event", "origin" and "magnitude", which stand for  *)
(* runs of letters that hold neither a digit nor a '/'.  The token "sup2"  *)
(* is U+00B2 SUPERSCRIPT TWO: str.isdigit() is true of it although it is   *)
(* no decimal digit.                                                       *)
(*                                                                         *)
(* Real numbers are fixed-point integers, the unit given at each field:    *)
(*   latitude, longitude          1/10 degree                              *)
(*   depth, horizontal and vertical error tokens   1/10 km                 *)
(*   depth and depth error of an Origin            metre                   *)
(*   latitude and longitude error of an Origin     1e-6 degree             *)
(*   rms, weight                  1/100                                    *)
(*   magnitude                    1/10                                     *)
(*   seconds token                1e-6 s                                   *)
(*   relative time token          1e-5 s                                   *)
(* An absent value (None) is the empty sequence, a present one <<v>>.      *)
(***************************************************************************)
EXTENDS Integers, Sequences, FiniteSets, TLC

VARIABLES
    pc,           \* position: "read", "begin", "loop", "flush", "reread", "done", "raised"
    text0,        \* the PHA file given to the first _read_pha (lines)
    catalog,      \* the catalog handed to _write_pha (sequence of events)
    seed,         \* the eventid_map argument of _write_pha: None or a dict
    eventid_map,  \* the dict object of the write session (args_map_eventid[0])
    used_ids,     \* args_map_eventid[1]
    counter,      \* args_map_eventid[2][0]
    ret_map,      \* the local name eventid_map of _write_pha, rebound at line 209
    lines,        \* the list lines of _write_pha
    i,            \* index of the next event of the for loop
    handed,       \* what each call of _map_eventid returned as the id, in call order
    warned,       \* the warnings issued, in order
    out,          \* the destination: None before fh.write, <<data>> after
    result,       \* the value _write_pha returned
    catalog2,     \* the catalog the second _read_pha returned
    err           \* the exception that ended the run, "" when none

vars == <<pc, text0, catalog, seed, eventid_map, used_ids, counter, ret_map,
          lines, i, handed, warned, out, result, catalog2, err>>

None == <<>>
Some(v) == <<v>>

\* ------------------------------------------------------------------ bounds
MaxEvents == 3
MaxBlocks == 2

\* ------------------------------------------------------------- characters
DecimalChars == {"0", "1", "2", "3", "4", "5", "6", "7", "8", "9"}

\* str.isdigit() of one character: the decimal digits and the other
\* characters of Unicode property Numeric_Type=Digit, here U+00B2.
IsDigitChar(c) == c \in DecimalChars \cup {"sup2"}

\* str.isdigit(): false of the empty string.
isdigit(s) == Len(s) > 0 /\ \A k \in 1..Len(s) : IsDigitChar(s[k])

\* A string of decimal digits 0-9 only (what the PHA format calls numeric).
IsDecimal(s) == Len(s) > 0 /\ \A k \in 1..Len(s) : s[k] \in DecimalChars

DigitChar(d) ==
    CASE d = 0 -> "0" [] d = 1 -> "1" [] d = 2 -> "2" [] d = 3 -> "3"
      [] d = 4 -> "4" [] d = 5 -> "5" [] d = 6 -> "6" [] d = 7 -> "7"
      [] d = 8 -> "8" [] d = 9 -> "9"

\* str(n) of a natural number.
RECURSIVE str(_)
str(n) == IF n < 10 THEN <<DigitChar(n)>>
          ELSE str(n \div 10) \o <<DigitChar(n % 10)>>

\* ''.join(char for char in idpha if char.isdigit())
DigitsOf(s) == SelectSeq(s, IsDigitChar)

\* idpha[:9]
MaxIdLen == 9
Truncate(s) == IF Len(s) > MaxIdLen THEN SubSeq(s, 1, MaxIdLen) ELSE s

\* evid.split('/')[-1] if '/' in evid else evid
RECURSIVE LastSlash(_, _)
LastSlash(s, k) == IF k = 0 THEN 0
                   ELSE IF s[k] = "/" THEN k ELSE LastSlash(s, k - 1)
LastComponent(s) == SubSeq(s, LastSlash(s, Len(s)) + 1, Len(s))

\* ------------------------------------------------------------------ dicts
\* A dict is the sequence of its items <<key, value>> in insertion order.
Keys(d) == {d[k][1] : k \in 1..Len(d)}
Values(d) == {d[k][2] : k \in 1..Len(d)}
Has(d, key) == key \in Keys(d)
Get(d, key) == d[CHOOSE k \in 1..Len(d) : d[k][1] = key][2]
\* d[key] = value
Put(d, key, value) ==
    IF Has(d, key)
    THEN [k \in 1..Len(d) |-> IF d[k][1] = key THEN <<key, value>> ELSE d[k]]
    ELSE Append(d, <<key, value>>)

\* {v: k for k, v in eventid_map.items()}
InvertedKept(d) == d
RECURSIVE Inverted(_)
Inverted(d) == IF d = <<>> THEN <<>>
               ELSE Put(Inverted(SubSeq(d, 1, Len(d) - 1)),
                        d[Len(d)][2], d[Len(d)][1])

\* ------------------------------------------------- identifier canonicalizer
InitialCounter == 1000

\* while idpha == '' or idpha in used_ids: idpha = str(counter[0]); counter[0] += 1
\* The result is the id and the counter after the loop.
RECURSIVE Fallback(_, _, _)
Fallback(idpha, used, cnt) ==
    IF idpha = <<>> \/ idpha \in used
    THEN Fallback(str(cnt), used, cnt + 1)
    ELSE [idpha |-> idpha, counter |-> cnt]

\* if not idpha.isdigit() or len(idpha) > 9
InvalidForced(idpha) == ~isdigit(idpha) \/ Len(idpha) > MaxIdLen

\* _map_eventid(evid, eventid_map, used_ids, counter).  The result holds the
\* exception raised ("" when none), the value returned (a str on the forced
\* path, the tuple (idpha, eventid_map) otherwise) and the three mutable
\* arguments as the call leaves them.
map_eventid(evid, emap, used, cnt) ==
    IF Has(emap, evid)
    THEN LET idpha == Get(emap, evid) IN
         IF InvalidForced(idpha)
         THEN [exc |-> "ValueError", kind |-> "none", idpha |-> <<>>,
               eventid_map |-> emap, used_ids |-> used, counter |-> cnt]
         ELSE [exc |-> "", kind |-> "str", idpha |-> idpha,
               eventid_map |-> emap, used_ids |-> used, counter |-> cnt]
    ELSE LET stripped == IF ~isdigit(evid) THEN DigitsOf(evid) ELSE evid
             cut == Truncate(stripped)
             fb == Fallback(cut, used, cnt)
         IN [exc |-> "", kind |-> "tuple", idpha |-> fb.idpha,
             eventid_map |-> IF fb.idpha # evid THEN Put(emap, evid, fb.idpha)
                             ELSE emap,
             used_ids |-> used \cup {fb.idpha},
             counter |-> fb.counter]

\* evid, eventid_map = <value returned by _map_eventid>
\* A tuple unpacks into its two members; a str unpacks into its characters,
\* which must be exactly two.
Unpack(r) ==
    IF r.kind = "tuple"
    THEN [exc |-> "", evid |-> r.idpha, ret |-> [kind |-> "dict", val |-> <<>>]]
    ELSE IF Len(r.idpha) = 2
    THEN [exc |-> "", evid |-> <<r.idpha[1]>>,
          ret |-> [kind |-> "str", val |-> <<r.idpha[2]>>]]
    ELSE [exc |-> "ValueError", evid |-> <<>>, ret |-> [kind |-> "dict", val |-> <<>>]]

\* -------------------------------------------------------------- arithmetic
\* a / b rounded to the nearest integer (b > 0): the fixed-point image of a
\* floating-point division.
RoundDiv(a, b) == (2 * a + b) \div (2 * b)

Max(a, b) == IF a >= b THEN a ELSE b

\* DEG2KM = 111.2, in 1/10 km per degree.
DEG2KM == 1112

\* cos(deg2rad(latitude)) in 1e-4, for the latitudes (1/10 degree) of the model.
Cos4(la) ==
    CASE la = 0 -> 10000
      [] la = 400 \/ la = -400 -> 7660
      [] la = 890 \/ la = -890 -> 175
      [] la = 895 \/ la = -895 -> 87

\* ------------------------------------------------------------------- time
\* A UTCDateTime is [year, month, s, us]: s the seconds since the start of
\* day 1 of the month, us the microseconds (0..999999).

\* UTCDateTime(yr, mo, dy, hr, mn, sc, strict=False): components out of their
\* nominal range (minute 60, second 60.25) carry into the next unit.
UTCDateTime(yr, mo, dy, hr, mn, sc) ==
    [year |-> yr, month |-> mo,
     s |-> (dy - 1) * 86400 + hr * 3600
           + mn * 60 + sc \div 1000000,
     us |-> sc % 1000000]

\* time + seconds (seconds given in microseconds)
TimeAdd(t, d) ==
    [year |-> t.year, month |-> t.month,
     s |-> t.s + (t.us + d) \div 1000000,
     us |-> (t.us + d) % 1000000]

\* a - b in microseconds
TimeSub(a, b) == (a.s - b.s) * 1000000 + (a.us - b.us)

TimeDay(t) == t.s \div 86400 + 1
TimeHour(t) == (t.s % 86400) \div 3600
TimeMinute(t) == (t.s % 3600) \div 60
TimeSecond(t) == t.s % 60

\* ----------------------------------------------------------------- reader
EventPrefix == <<"smi:local", "/", "event", "/">>
OriginPrefix == <<"smi:local", "/", "origin", "/">>
MagnitudePrefix == <<"smi:local", "/", "magnitude", "/">>

\* ph2comp.get(phase, '') with the default ph2comp={'P': 'Z', 'S': 'N'}
Ph2Comp(phase) == CASE phase = "P" -> "Z" [] phase = "S" -> "N" [] OTHER -> ""

\* mg.lower() == 'nan'
IsNaNToken(mg) == mg.txt \in {"NaN", "nan", "NAN"}

PoleLatitude == 890

\* float(la) > 89
NearPole(la) == la > PoleLatitude

\* laterr = None if float(eh) == 0 else float(eh) / DEG2KM
LatErrAlways(eh) == Some(RoundDiv(eh * 1000000, DEG2KM))
LatErr(eh) == IF eh = 0 THEN None ELSE Some(RoundDiv(eh * 1000000, DEG2KM))

\* lonerr = (None if laterr is None or float(la) > 89 else
\*           laterr / cos(deg2rad(float(la))))
LonErr(laterr, la) ==
    IF laterr = None \/ NearPole(la) THEN None
    ELSE Some(RoundDiv(laterr[1] * 10000, Cos4(la)))

\* ez = None if float(ez) == 0 else float(ez) * 1000
DepthErr(ez) == IF ez = 0 THEN None ELSE Some(ez * 100)

\* rms = None if float(rms) == 0 else float(rms)
Rms(rms) == IF rms = 0 THEN None ELSE Some(rms)

\* One pick line of block b (its k-th): the Pick and its Arrival.  The Pick's
\* resource id is fresh; <<b, k>> stands for it.  The waveform id comes from
\* the default template '.{}..{}'.
PickOf(line, b, k, time) ==
    [resource_id |-> <<b, k>>,
     station_code |-> line.sta,
     channel_code |-> Ph2Comp(line.phase),
     phase_hint |-> line.phase,
     time |-> TimeAdd(time, line.reltime * 10)]
ArrivalOf(line, b, k) ==
    [phase |-> line.phase, pick_id |-> <<b, k>>, time_weight |-> line.weight]

\* _block2event(block, seed_map, id_default, ph2comp, eventid_map): block is
\* the header line followed by the pick lines, b its position in the file,
\* inv the inverted eventid_map (None or Some(dict)).
block2event(block, b, inv) ==
    LET h == block[1]
        id_ == IF inv # None /\ Has(inv[1], h.evid) THEN Get(inv[1], h.evid)
               ELSE h.evid
        time == UTCDateTime(h.yr, h.mo, h.dy, h.hr, h.mn, h.sc)
        laterr == LatErr(h.eh)
        lonerr == LonErr(laterr, h.la)
        n == Len(block) - 1
        picks == [k \in 1..n |-> PickOf(block[k + 1], b, k, time)]
        arrivals == [k \in 1..n |-> ArrivalOf(block[k + 1], b, k)]
        origin == [arrivals |-> arrivals,
                   resource_id |-> OriginPrefix \o id_,
                   associated_phase_count |-> n,
                   standard_error |-> Rms(h.rms),
                   latitude |-> h.la,
                   longitude |-> h.lo,
                   depth |-> 100 * h.dp,
                   latitude_errors |-> laterr,
                   longitude_errors |-> lonerr,
                   depth_errors |-> DepthErr(h.ez),
                   time |-> time]
        magnitudes == IF IsNaNToken(h.mg) THEN <<>>
                      ELSE <<[mag |-> h.mg.v,
                              resource_id |-> MagnitudePrefix \o id_]>>
    IN [resource_id |-> EventPrefix \o id_,
        picks |-> picks,
        origins |-> <<origin>>,
        magnitudes |-> magnitudes,
        preferred_origin_id |-> Some(origin.resource_id),
        preferred_magnitude_id |->
            IF IsNaNToken(h.mg) THEN None ELSE Some(magnitudes[1].resource_id)]

\* text.split('#')[1:]: the positions of the header lines; block j runs from
\* its header to the line before the next header, and what precedes the
\* first header is dropped.
HeaderIdx(text) == {k \in 1..Len(text) : text[k].kind = "hdr"}
BlockEnd(text, k) ==
    IF \E m \in HeaderIdx(text) : m > k
    THEN (CHOOSE m \in HeaderIdx(text) :
              m > k /\ \A m2 \in HeaderIdx(text) : m2 > k => m <= m2) - 1
    ELSE Len(text)
RECURSIVE BlocksFrom(_, _)
BlocksFrom(text, k) ==
    IF k > Len(text) THEN <<>>
    ELSE IF text[k].kind = "hdr"
    THEN <<SubSeq(text, k, BlockEnd(text, k))>> \o BlocksFrom(text, BlockEnd(text, k) + 1)
    ELSE BlocksFrom(text, k + 1)
Blocks(text) == BlocksFrom(text, 1)

\* _read_pha(filename, eventid_map=emap): emap is None or Some(dict).
read_pha(text, emap) ==
    LET inv == IF emap # None THEN Some(Inverted(emap[1])) ELSE None
        blocks == Blocks(text)
    IN [b \in 1..Len(blocks) |-> block2event(blocks[b], b, inv)]

\* ----------------------------------------------------------------- writer
\* event.preferred_origin(): the origin preferred_origin_id refers to, or None.
PreferredOrigin(ev) ==
    IF ev.preferred_origin_id = None THEN None
    ELSE LET hit == {k \in 1..Len(ev.origins) :
                        ev.origins[k].resource_id = ev.preferred_origin_id[1]}
         IN IF hit = {} THEN None
            ELSE Some(ev.origins[CHOOSE k \in hit : \A m \in hit : k <= m])

\* event.preferred_magnitude()
PreferredMagnitude(ev) ==
    IF ev.preferred_magnitude_id = None THEN None
    ELSE LET hit == {k \in 1..Len(ev.magnitudes) :
                        ev.magnitudes[k].resource_id = ev.preferred_magnitude_id[1]}
         IN IF hit = {} THEN None
            ELSE Some(ev.magnitudes[CHOOSE k \in hit : \A m \in hit : k <= m])

\* ori = event.preferred_origin() or event.origins[0]; None stands for the
\* IndexError of an empty origins list.
OriginToWrite(ev) ==
    IF PreferredOrigin(ev) # None THEN PreferredOrigin(ev)
    ELSE IF ev.origins = <<>> THEN None ELSE Some(ev.origins[1])

\* mag = event.preferred_magnitude() or event.magnitudes[0]; mag = mag.mag,
\* and 0. on IndexError.  The result is the value and whether it was missing.
MagToWrite(ev) ==
    IF PreferredMagnitude(ev) # None
    THEN [missing |-> FALSE, mag |-> PreferredMagnitude(ev)[1].mag]
    ELSE IF ev.magnitudes = <<>> THEN [missing |-> TRUE, mag |-> 0]
    ELSE [missing |-> FALSE, mag |-> ev.magnitudes[1].mag]

\* he = max(0. if he1 is None else he1 * DEG2KM,
\*          0. if he2 is None else he2 * DEG2KM * shortening)
\* (the product with the cosine is taken first, to stay within 32 bits)
HorizontalError(ori) ==
    LET he1 == ori.latitude_errors
        he2 == ori.longitude_errors
    IN Max(IF he1 = None THEN 0 ELSE RoundDiv(he1[1] * DEG2KM, 1000000),
           IF he2 = None THEN 0
           ELSE RoundDiv(RoundDiv(he2[1] * Cos4(ori.latitude), 10000) * DEG2KM,
                         1000000))

\* PHA1.format(o=ori, depth=ori.depth / 1000, mag=mag, he=he, ve=ve, rms=rms,
\*             evid=evid)
PHA1(ori, mag, evid) ==
    [kind |-> "hdr",
     yr |-> ori.time.year, mo |-> ori.time.month, dy |-> TimeDay(ori.time),
     hr |-> TimeHour(ori.time), mn |-> TimeMinute(ori.time),
     sc |-> TimeSecond(ori.time) * 1000000 + ori.time.us,
     la |-> ori.latitude, lo |-> ori.longitude,
     dp |-> RoundDiv(ori.depth, 100),
     mg |-> [txt |-> "num", v |-> mag],
     eh |-> HorizontalError(ori),
     ez |-> IF ori.depth_errors = None THEN 0
            ELSE RoundDiv(ori.depth_errors[1], 100),
     rms |-> IF ori.standard_error = None THEN 0 ELSE ori.standard_error[1],
     evid |-> evid]

\* '{relt:.4f}': microseconds rounded to 1e-4 s, as a token in 1e-5 s.
Fmt4fTruncating(us) == (us \div 100) * 10
Fmt4f(us) == RoundDiv(us, 100) * 10

DefaultWeight == 100

\* weights = {}; for arrival in ori.arrivals: weights[str(arrival.pick_id)] =
\* arrival.time_weight;  weights.get(str(pick.resource_id), 1.)
WeightOf(ori, pick) ==
    LET hit == {k \in 1..Len(ori.arrivals) :
                    ori.arrivals[k].pick_id = pick.resource_id}
    IN IF hit = {} THEN DefaultWeight
       ELSE ori.arrivals[CHOOSE k \in hit : \A m \in hit : k >= m].time_weight

\* PHA2.format(p=pick, relt=pick.time - ori.time, weight=weight)
PHA2(ori, pick) ==
    [kind |-> "pick", sta |-> pick.station_code,
     reltime |-> Fmt4f(TimeSub(pick.time, ori.time)),
     weight |-> WeightOf(ori, pick), phase |-> pick.phase_hint]

PickLines(ori, ev) == [k \in 1..Len(ev.picks) |-> PHA2(ori, ev.picks[k])]

\* _write_pha, lines 190-193.
WriteBegin ==
    /\ pc = "begin"
    /\ lines' = <<>>
    /\ eventid_map' = IF seed = None THEN <<>> ELSE seed[1]
    /\ used_ids' = Values(eventid_map')
    /\ counter' = InitialCounter
    /\ ret_map' = [kind |-> "dict", val |-> <<>>]
    /\ i' = 1
    /\ pc' = "loop"
    /\ UNCHANGED <<text0, catalog, seed, handed, warned, out, result, catalog2, err>>

\* _write_pha, lines 194-230: one iteration of the loop over the catalog.
WriteEvent ==
    /\ pc = "loop"
    /\ i <= Len(catalog)
    /\ LET ev == catalog[i]
           ori == OriginToWrite(ev)
           mag == MagToWrite(ev)
           evid == LastComponent(ev.resource_id)
           r == map_eventid(evid, eventid_map, used_ids, counter)
           u == Unpack(r)
       IN IF ori = None
          THEN /\ warned' = Append(warned, "Skip writing events with missing origin")
               /\ i' = i + 1
               /\ UNCHANGED <<pc, eventid_map, used_ids, counter, ret_map,
                              lines, handed, err>>
          ELSE IF r.exc # ""
          THEN /\ pc' = "raised"
               /\ err' = r.exc
               /\ warned' = IF mag.missing
                            THEN Append(warned, "Missing magnitude will be set to 0.0")
                            ELSE warned
               /\ UNCHANGED <<eventid_map, used_ids, counter, ret_map, lines,
                              i, handed>>
          ELSE /\ eventid_map' = r.eventid_map
               /\ used_ids' = r.used_ids
               /\ counter' = r.counter
               /\ handed' = Append(handed, r.idpha)
               /\ warned' = IF mag.missing
                            THEN Append(warned, "Missing magnitude will be set to 0.0")
                            ELSE warned
               /\ IF u.exc # ""
                  THEN /\ pc' = "raised"
                       /\ err' = u.exc
                       /\ UNCHANGED <<ret_map, lines, i>>
                  ELSE /\ ret_map' = u.ret
                       /\ lines' = Append(lines, PHA1(ori[1], mag.mag, u.evid))
                                   \o PickLines(ori[1], ev)
                       /\ i' = i + 1
                       /\ UNCHANGED <<pc, err>>
    /\ UNCHANGED <<text0, catalog, seed, out, result, catalog2>>

\* return None if len(eventid_map) == 0 else eventid_map, on the local name
\* eventid_map: the dict of the session, or the str line 209 bound to it.
ReturnValue(local, emap) ==
    IF local.kind = "dict"
    THEN IF Len(emap) = 0 THEN [kind |-> "None", val |-> <<>>]
         ELSE [kind |-> "dict", val |-> emap]
    ELSE IF Len(local.val) = 0 THEN [kind |-> "None", val |-> <<>>]
         ELSE [kind |-> "str", val |-> local.val]

\* _write_pha, lines 231-237: the single write of all lines, and the return.
WriteFile ==
    /\ pc = "loop"
    /\ i > Len(catalog)
    /\ out' = Some(lines)
    /\ result' = ReturnValue(ret_map, eventid_map)
    /\ pc' = "reread"
    /\ UNCHANGED <<text0, catalog, seed, eventid_map, used_ids, counter, ret_map,
                   lines, i, handed, warned, catalog2, err>>

\* _read_pha of the written file, eventid_map being what _write_pha returned
\* (no eventid_map when it returned None).  A str has no items(): line 137
\* raises AttributeError.
ReRead ==
    /\ pc = "reread"
    /\ IF result.kind = "str"
       THEN /\ pc' = "raised"
            /\ err' = "AttributeError"
            /\ UNCHANGED catalog2
       ELSE /\ catalog2' = read_pha(out[1], IF result.kind = "None" THEN None
                                            ELSE Some(result.val))
            /\ pc' = "done"
            /\ UNCHANGED err
    /\ UNCHANGED <<text0, catalog, seed, eventid_map, used_ids, counter, ret_map,
                   lines, i, handed, warned, out, result>>

\* _read_pha of the input file, without eventid_map; its catalog is then
\* written with _write_pha(catalog, filename).
ReadFile ==
    /\ pc = "read"
    /\ catalog' = read_pha(text0, None)
    /\ pc' = "begin"
    /\ UNCHANGED <<text0, seed, eventid_map, used_ids, counter, ret_map, lines,
                   i, handed, warned, out, result, catalog2, err>>

\* ----------------------------------------------------------------- inputs
\* Sequences over S of length 0..n.
SeqsUpTo(S, n) == UNION {[1..m -> S] : m \in 0..n}

\* Resource ids of the events handed to _write_pha: non-numeric, with a
\* prefix and mixed, numeric, equal to the first counter value, ten digits,
\* a non-decimal digit, and empty after the last '/'.
ResourceIds ==
    { <<"a">>,
      EventPrefix \o <<"a", "1", "2">>,
      <<"1", "2">>,
      <<"1", "0", "0", "0">>,
      <<"1", "2", "3", "4", "5", "6", "7", "8", "9", "0">>,
      <<"sup2">>,
      EventPrefix }

TimeA == UTCDateTime(2001, 1, 15, 8, 5, 0)

PickA == [resource_id |-> <<0, 1>>, station_code |-> "STA1", channel_code |-> "Z",
          phase_hint |-> "P", time |-> TimeAdd(TimeA, 1234500)]

OriginA ==
    [arrivals |-> <<[phase |-> "P", pick_id |-> <<0, 1>>, time_weight |-> 50]>>,
     resource_id |-> OriginPrefix \o <<"o">>,
     associated_phase_count |-> 1,
     standard_error |-> Some(10),
     latitude |-> 400, longitude |-> -1200, depth |-> 5000,
     latitude_errors |-> LatErr(10),
     longitude_errors |-> LonErr(LatErr(10), 400),
     depth_errors |-> Some(500),
     time |-> TimeA]

MagnitudeA == [mag |-> 25, resource_id |-> MagnitudePrefix \o <<"m">>]

\* An event with an origin and a magnitude, one without magnitude, one
\* without origin; none names a preferred origin or magnitude.
EventOf(rid, origins, magnitudes) ==
    [resource_id |-> rid, picks |-> <<PickA>>, origins |-> origins,
     magnitudes |-> magnitudes, preferred_origin_id |-> None,
     preferred_magnitude_id |-> None]
Events(rids) ==
    {EventOf(rid, <<OriginA>>, <<MagnitudeA>>) : rid \in rids}
    \cup {EventOf(rid, <<OriginA>>, <<>>) : rid \in rids}
    \cup {EventOf(rid, <<>>, <<MagnitudeA>>) : rid \in rids}

\* The eventid_map arguments: none, empty, a forced one-digit id, a forced
\* two-digit id, a forced id for a key after its prefix is stripped, a
\* non-numeric value, a value of ten digits, a value with a non-decimal
\* digit, and an invalid and a valid entry for a key no event has.
Seeds ==
    { None,
      Some(<<>>),
      Some(<< <<<<"a">>, <<"7">>>> >>),
      Some(<< <<<<"a">>, <<"3", "4">>>> >>),
      Some(<< <<<<"a", "1", "2">>, <<"1", "2", "3">>>> >>),
      Some(<< <<<<"a">>, <<"x", "1">>>> >>),
      Some(<< <<<<"a">>, <<"1", "2", "3", "4", "5", "6", "7", "8", "9", "0">>>> >>),
      Some(<< <<<<"a">>, <<"sup2", "3">>>> >>),
      Some(<< <<<<"z">>, <<"x">>>> >>),
      Some(<< <<<<"z">>, <<"5">>>> >>) }

InitSession(catalogs, seeds) ==
    /\ pc = "begin"
    /\ text0 = <<>>
    /\ catalog \in catalogs
    /\ seed \in seeds
    /\ eventid_map = <<>>
    /\ used_ids = {}
    /\ counter = InitialCounter
    /\ ret_map = [kind |-> "dict", val |-> <<>>]
    /\ lines = <<>>
    /\ i = 1
    /\ handed = <<>>
    /\ warned = <<>>
    /\ out = None
    /\ result = [kind |-> "None", val |-> <<>>]
    /\ catalog2 = <<>>
    /\ err = ""

\* _write_pha on any catalog with any eventid_map, then _read_pha of the
\* output with the returned table.
Init == InitSession(SeqsUpTo(Events(ResourceIds), MaxEvents), Seeds)
Next == WriteBegin \/ WriteEvent \/ WriteFile \/ ReRead
Spec == Init /\ [][Next]_vars

\* The same without a pre-seeded table.
EventsNoSeed ==
    {EventOf(rid, <<OriginA>>, <<MagnitudeA>>) : rid \in ResourceIds}
    \cup {EventOf(rid, <<>>, <<MagnitudeA>>) : rid \in ResourceIds}
InitNoSeed == InitSession(SeqsUpTo(EventsNoSeed, MaxEvents), {None, Some(<<>>)})
SpecNoSeed == InitNoSeed /\ [][Next]_vars

\* ------------------------------------------------------------ input files
Header(dy, hr, mn, sc, la, lo, dp, mg, eh, ez, rms, evid) ==
    [kind |-> "hdr", yr |-> 2001, mo |-> 1, dy |-> dy, hr |-> hr, mn |-> mn,
     sc |-> sc, la |-> la, lo |-> lo, dp |-> dp, mg |-> mg, eh |-> eh,
     ez |-> ez, rms |-> rms, evid |-> evid]

NaN == [txt |-> "NaN", v |-> 0]
Num(v) == [txt |-> "num", v |-> v]

\* STA1  1.2345  1.0  P      STA2  1.23456  0.5  S      STA3  -0.5  0.25  Pn
LineP == [kind |-> "pick", sta |-> "STA1", reltime |-> 123450, weight |-> 100,
          phase |-> "P"]
LineS == [kind |-> "pick", sta |-> "STA2", reltime |-> 123456, weight |-> 50,
          phase |-> "S"]
LineN == [kind |-> "pick", sta |-> "STA3", reltime |-> -50000, weight |-> 25,
          phase |-> "Pn"]
PickLists == {<<>>, <<LineS>>, <<LineP, LineN>>}

\* Event ids of the files: three numeric ones and one that is not.
FileIds == { <<"7">>, <<"1", "2", "3", "4", "5">>, <<"1", "0", "0", "0">>,
             <<"a", "7">> }

\* #  2001 1 15  8  5  0.00   40.0 -120.0 5.0 2.5 1.0 0.5 0.1  id
\* #  2001 1 15 23 60 60.25  -89.5  120.0 0.0 NaN 0.0 0.0 0.0  id
\* #  2001 1 15  8  5  1.50   89.5   10.0 12.3 0.0 1.0 0.0 0.1 id
FileHeaders ==
    {Header(15, 8, 5, 0, 400, -1200, 50, Num(25), 10, 5, 10, id) : id \in FileIds}
    \cup {Header(15, 23, 60, 60250000, -895, 1200, 0, NaN, 0, 0, 0, id) : id \in FileIds}
    \cup {Header(15, 8, 5, 1500000, 895, 100, 123, Num(0), 10, 0, 10, id) : id \in FileIds}

FileBlocks == {<<h>> \o p : h \in FileHeaders, p \in PickLists}

RECURSIVE Concat(_)
Concat(ss) == IF ss = <<>> THEN <<>> ELSE ss[1] \o Concat(Tail(ss))

InitFile(files) ==
    /\ pc = "read"
    /\ text0 \in files
    /\ catalog = <<>>
    /\ seed = None
    /\ eventid_map = <<>>
    /\ used_ids = {}
    /\ counter = InitialCounter
    /\ ret_map = [kind |-> "dict", val |-> <<>>]
    /\ lines = <<>>
    /\ i = 1
    /\ handed = <<>>
    /\ warned = <<>>
    /\ out = None
    /\ result = [kind |-> "None", val |-> <<>>]
    /\ catalog2 = <<>>
    /\ err = ""

\* _read_pha of a file, _write_pha of its catalog, _read_pha of the output.
InitRT == InitFile({Concat(bs) : bs \in SeqsUpTo(FileBlocks, MaxBlocks)})
NextRT == ReadFile \/ WriteBegin \/ WriteEvent \/ WriteFile \/ ReRead
SpecRT == InitRT /\ [][NextRT]_vars

\* _read_pha of one block, over every combination of the header fields the
\* error attributes depend on.
ReadHeaders ==
    {Header(15, 8, 5, 0, la, -1200, 50, mg, eh, ez, rms, <<"7">>) :
        la \in {0, 400, 890, 895, -400, -890, -895}, mg \in {NaN, Num(25)},
        eh \in {0, 5, 10}, ez \in {0, 5}, rms \in {0, 10}}
InitRead == InitFile({<<h>> \o p : h \in ReadHeaders, p \in {<<>>, <<LineP>>}})
SpecRead == InitRead /\ [][ReadFile]_vars

\* ------------------------------------------------------------- properties
IsHdr(l) == l.kind = "hdr"
Headers(ls) == SelectSeq(ls, IsHdr)
HasOrigin(ev) == ev.origins # <<>>
SourceId(ev) == LastComponent(ev.resource_id)

\* The events whose iteration of the loop is over and that have an origin:
\* the k-th of them is the event of the k-th header line.
Written == SelectSeq(SubSeq(catalog, 1, i - 1), HasOrigin)
WriteReturned == out # None

Distinct(q) == \A j, k \in 1..Len(q) : j # k => q[j] # q[k]
HeaderIds(ls) == [k \in 1..Len(Headers(ls)) |-> Headers(ls)[k].evid]

\* C1: the ids _map_eventid has handed out so far in the write session are
\* pairwise distinct, and so are the event ids of the header lines.
C1_UniqueIds == Distinct(handed) /\ Distinct(HeaderIds(lines))

\* A forced mapping of the caller's table that is all decimal digits and of
\* 1 to 9 characters.
ForcedValid(ev) ==
    /\ seed # None
    /\ Has(seed[1], SourceId(ev))
    /\ IsDecimal(Get(seed[1], SourceId(ev)))
    /\ Len(Get(seed[1], SourceId(ev))) <= MaxIdLen

\* C2: an event whose source id the pre-seeded table maps to 1 to 9 decimal
\* digits does not make the write fail, and its header line carries exactly
\* the mapped value.
C2_ForcedIdUsedAsIs ==
    /\ pc = "raised" => ~ForcedValid(catalog[i])
    /\ \A k \in 1..Len(Written) :
          ForcedValid(Written[k])
          => HeaderIds(lines)[k] = Get(seed[1], SourceId(Written[k]))

\* C3: every event id of a header line is a non-empty string of decimal
\* digits of length at most 9.
C3_IdsDecimalMax9 ==
    \A k \in 1..Len(Headers(lines)) :
        IsDecimal(Headers(lines)[k].evid) /\ Len(Headers(lines)[k].evid) <= MaxIdLen

\* C6: without a table from the caller, the write of any catalog does not
\* fail; its output holds, in catalog order, one header line followed by the
\* pick lines for each event that has an origin and nothing for the others,
\* one warning is issued per event without origin, and an event without
\* magnitude is written with magnitude 0.0.
WithOrigin == SelectSeq(catalog, HasOrigin)
C6_SkipsOriginless ==
    seed = None =>
        /\ pc # "raised"
        /\ WriteReturned =>
            /\ Len(Blocks(out[1])) = Len(WithOrigin)
            /\ \A k \in 1..Len(WithOrigin) :
                  /\ k <= Len(Blocks(out[1]))
                  /\ Len(Blocks(out[1])[k]) = 1 + Len(WithOrigin[k].picks)
                  /\ WithOrigin[k].magnitudes = <<>>
                     => Blocks(out[1])[k][1].mg = Num(0)

\* Some event was written under an id other than its source id.
Renumbered ==
    \E k \in 1..Len(Written) :
        k <= Len(HeaderIds(lines)) /\ HeaderIds(lines)[k] # SourceId(Written[k])

\* C7, for a caller that passes no table or an empty one: _write_pha returns
\* the remap table when some event id was renumbered and None otherwise.
C7_ReturnsTableIffRenumbered ==
    (WriteReturned /\ seed \in {None, Some(<<>>)}) =>
        IF Renumbered THEN result = [kind |-> "dict", val |-> eventid_map]
        ELSE result.kind = "None"

\* A forced mapping of the caller's table that is not all decimal digits or
\* is longer than 9 characters.
ForcedInvalid(ev) ==
    /\ seed # None
    /\ Has(seed[1], SourceId(ev))
    /\ ~(IsDecimal(Get(seed[1], SourceId(ev)))
         /\ Len(Get(seed[1], SourceId(ev))) <= MaxIdLen)

\* C8: no event with an origin whose source id the caller's table maps to an
\* invalid value gets past its iteration of the loop (the write fails there);
\* a failed write has written nothing; and the write fails only at an event
\* whose source id is in the table.
C8_InvalidForcedIsFatal ==
    /\ \A k \in 1..Len(Written) : ~ForcedInvalid(Written[k])
    /\ (pc = "raised" /\ err = "ValueError")
       => out = None /\ Has(eventid_map, SourceId(catalog[i]))

\* The header line of the k-th block of the input file.
Header0(k) == Blocks(text0)[k][1]
AfterRead == pc # "read"

\* C4: an origin read from a header line whose latitude is above 89 or below
\* -89 has no longitude error.
C4_PoleGuard ==
    AfterRead =>
        \A k \in 1..Len(catalog) :
            (Header0(k).la > PoleLatitude \/ Header0(k).la < -PoleLatitude)
            => catalog[k].origins[1].longitude_errors = None

\* C9: a horizontal-error field of 0 leaves latitude and longitude error
\* absent and a vertical-error field of 0 leaves the depth error absent; a
\* non-zero field makes latitude error, respectively depth error, present.
C9_ZeroErrorsAbsent ==
    AfterRead =>
        \A k \in 1..Len(catalog) :
            LET o == catalog[k].origins[1] IN
            /\ Header0(k).eh = 0
               => o.latitude_errors = None /\ o.longitude_errors = None
            /\ Header0(k).ez = 0 => o.depth_errors = None
            /\ Header0(k).eh # 0 => o.latitude_errors # None
            /\ Header0(k).ez # 0 => o.depth_errors # None
\* A block with horizontal error 0 and a non-zero vertical error was read:
\* latitude and longitude error are absent, the depth error is present.
C9_Witness ==
    /\ AfterRead
    /\ \E k \in 1..Len(catalog) :
          /\ Header0(k).eh = 0 /\ Header0(k).ez # 0
          /\ catalog[k].origins[1].latitude_errors = None
          /\ catalog[k].origins[1].longitude_errors = None
          /\ catalog[k].origins[1].depth_errors # None

\* The input file is well formed for the round trip: its event ids are
\* decimal, of at most 9 digits and pairwise distinct.
NumericDistinctIds ==
    /\ \A k \in 1..Len(Blocks(text0)) :
          IsDecimal(Header0(k).evid) /\ Len(Header0(k).evid) <= MaxIdLen
    /\ Distinct([k \in 1..Len(Blocks(text0)) |-> Header0(k).evid])

\* The relative time of pick j of an event to the event's origin, in
\* microseconds, its arrival weight and its phase label.
RelTime(ev, j) == TimeSub(ev.picks[j].time, ev.origins[1].time)
SameOrigin(e1, e2) ==
    /\ e1.origins[1].time = e2.origins[1].time
    /\ e1.origins[1].latitude = e2.origins[1].latitude
    /\ e1.origins[1].longitude = e2.origins[1].longitude
    /\ e1.origins[1].depth = e2.origins[1].depth
SamePicksBut(e1, e2) ==
    /\ Len(e1.picks) = Len(e2.picks)
    /\ \A j \in 1..Len(e1.picks) :
          /\ j <= Len(e2.picks)
          /\ e1.origins[1].arrivals[j].time_weight = e2.origins[1].arrivals[j].time_weight
          /\ e1.picks[j].phase_hint = e2.picks[j].phase_hint
          /\ e1.origins[1].arrivals[j].phase = e2.origins[1].arrivals[j].phase

\* C5 as stated: read, write, read again gives the same events in the same
\* order, with identical origin time, latitude, longitude and depth and, for
\* each pick, identical relative time, weight and phase label.
C5_RoundTripIdentical ==
    NumericDistinctIds =>
        /\ pc # "raised"
        /\ pc = "done" =>
            /\ Len(catalog2) = Len(catalog)
            /\ \A k \in 1..Len(catalog) :
                  /\ k <= Len(catalog2)
                  /\ SameOrigin(catalog[k], catalog2[k])
                  /\ SamePicksBut(catalog[k], catalog2[k])
                  /\ \A j \in 1..Len(catalog[k].picks) :
                        RelTime(catalog2[k], j) = RelTime(catalog[k], j)

\* C5 as amended: the relative time of each pick comes back rounded to four
\* decimal places (a multiple of 1e-4 s within 0.5e-4 s of the original),
\* hence identical when the file gives it with at most four decimals.
C5_RoundTripRounded ==
    NumericDistinctIds =>
        /\ pc # "raised"
        /\ pc = "done" =>
            /\ Len(catalog2) = Len(catalog)
            /\ \A k \in 1..Len(catalog) :
                  /\ k <= Len(catalog2)
                  /\ SameOrigin(catalog[k], catalog2[k])
                  /\ SamePicksBut(catalog[k], catalog2[k])
                  /\ \A j \in 1..Len(catalog[k].picks) :
                        /\ RelTime(catalog2[k], j) % 100 = 0
                        /\ RelTime(catalog2[k], j) - RelTime(catalog[k], j) <= 50
                        /\ RelTime(catalog[k], j) - RelTime(catalog2[k], j) <= 50
\* Two blocks with numeric ids went through the round trip, one with two
\* picks, one pick with a fifth decimal, one header with minute 60.
C5_Witness ==
    /\ pc = "done"
    /\ NumericDistinctIds
    /\ Len(catalog) = 2
    /\ Len(catalog2) = 2
    /\ \E k \in 1..2 : \E j \in 1..Len(catalog[k].picks) :
          RelTime(catalog[k], j) % 100 # 0
    /\ \E k \in 1..2 : Len(catalog[k].picks) = 2
    /\ \E k \in 1..2 : Header0(k).mn = 60

\* The source ids of the catalog are pairwise distinct.
DistinctSources == Distinct([k \in 1..Len(catalog) |-> SourceId(catalog[k])])
RestoredId(k) == LastComponent(catalog2[k].resource_id)

\* C10 as stated: reading the output with the table the write returned
\* restores the source id of every event of the catalog, in order.
C10_IdsRestoredAll ==
    DistinctSources =>
        /\ pc # "raised"
        /\ pc = "done" =>
            /\ Len(catalog2) = Len(catalog)
            /\ \A k \in 1..Len(catalog) :
                  k <= Len(catalog2) /\ RestoredId(k) = SourceId(catalog[k])

\* C10 as amended: the source id of every event that has an origin is
\* restored, in order (an event without origin is not written), and the
\* returned table is injective.
C10_IdsRestoredWritten ==
    DistinctSources =>
        /\ pc # "raised"
        /\ (WriteReturned /\ result.kind = "dict")
           => Cardinality(Values(result.val)) = Len(result.val)
        /\ pc = "done" =>
            /\ Len(catalog2) = Len(WithOrigin)
            /\ \A k \in 1..Len(WithOrigin) :
                  k <= Len(catalog2) /\ RestoredId(k) = SourceId(WithOrigin[k])
\* A catalog with distinct source ids, two renumbered events and an event
\* without origin was written and read back with the returned table.
C10_Witness ==
    /\ pc = "done"
    /\ DistinctSources
    /\ Len(WithOrigin) >= 2
    /\ Len(WithOrigin) < Len(catalog)
    /\ result.kind = "dict"
    /\ Len(result.val) >= 2
====
